---- MODULE Spec2Model ----
(***************************************************************************)
(* Asset-transfer chaincode (atcc.go): the SmartContract's transaction     *)
(* functions over the world state reached through the shim's stub.         *)
(*                                                                         *)
(* The world state is a map from keys to serialized values.  A Go string   *)
(* is modelled by a TLA+ string; the string "\\xff" stands for the Go      *)
(* string holding the single byte 0xFF (not valid UTF-8) and "\\ufffd"     *)
(* for the Unicode replacement character.  A JSON document is modelled by  *)
(* the sequence of its members, each tagged with its JSON type.            *)
(***************************************************************************)
EXTENDS Integers, Sequences, FiniteSets, TLC

(* ---------------------------- bounds ----------------------------------- *)

\* Size arguments range over 1..MaxSize, AppraisedValue over 1..MaxValue.
MaxSize == 1
MaxValue == 1

\* The keys of the world state, in the store's native (lexical) key order.
Keys == <<"asset1", "asset10", "asset2", "asset3", "asset4", "asset5", "asset6">>

KeySet == {Keys[i] : i \in DOMAIN Keys}

\* The ids callers pass as arguments: a seed id and a non-seed id.
Ids == {"asset1", "asset10"}

InvalidUTF8 == "\\xff"
ReplacementChar == "\\ufffd"

Colors == {"red", InvalidUTF8}
Owners == {"Brad", InvalidUTF8}
Sizes == 1..MaxSize
Values == 1..MaxValue

\* Which store call of an invocation fails (0: none).  Spec draws from NoFault.
NoFault == {0}

(* ---------------------------- errors ----------------------------------- *)

\* A Go error is modelled by its message, a sequence of strings; nil is <<>>.
NoErr == <<>>

\* The messages of the contract's fmt.Errorf calls, as the pieces of the
\* formatted text (%s and %v format a string alike).
ErrPutWorldState(err) == <<"Failed to put to world state. ">> \o err

ErrAlreadyExists(id) == <<"The asset with id ", id, " already exists">>

ErrNotExist(id) == <<"The asset with id ", id, " does not exist">>

ErrReadWorldState(id) == <<"Failed to read world state for asset with id ", id>>

\* The error the world state raises when the named stub call fails.
StoreErr(call) == <<"store", call>>

(* ---------------------------- Asset and JSON --------------------------- *)

\* type Asset struct: the zero value.
ZeroAsset == [AppraisedValue |-> 0, Color |-> "", ID |-> "", Owner |-> "", Size |-> 0]

NewAsset(id, color, size, owner, appraisedValue) ==
    [AppraisedValue |-> appraisedValue, Color |-> color, ID |-> id,
     Owner |-> owner, Size |-> size]

\* The JSON type each struct field decodes from.
FieldType ==
    [AppraisedValue |-> "number", Color |-> "string", ID |-> "string",
     Owner |-> "string", Size |-> "number"]

\* encoding/json coerces a string to valid UTF-8: invalid bytes become U+FFFD.
ToValidUTF8(s) == IF s = InvalidUTF8 THEN ReplacementChar ELSE s

ValidUTF8(s) == s # InvalidUTF8

\* No value: what GetState returns for a key that is not stored.
Nil == <<>>

\* json.Marshal(asset): the members in struct field order; never fails for Asset.
Marshal(asset) ==
    [err  |-> NoErr,
     json |-> << [k |-> "AppraisedValue", t |-> "number", v |-> asset.AppraisedValue],
                 [k |-> "Color", t |-> "string", v |-> ToValidUTF8(asset.Color)],
                 [k |-> "ID", t |-> "string", v |-> ToValidUTF8(asset.ID)],
                 [k |-> "Owner", t |-> "string", v |-> ToValidUTF8(asset.Owner)],
                 [k |-> "Size", t |-> "number", v |-> asset.Size] >>]

\* json.Unmarshal(data, &asset): members are decoded in order into the zero
\* Asset; unknown members are ignored, a member of the wrong JSON type is an
\* error, and so is empty input.
RECURSIVE DecodeMembers(_, _)
DecodeMembers(members, asset) ==
    IF members = <<>> THEN [err |-> NoErr, asset |-> asset]
    ELSE LET m == Head(members) IN
         IF m.k \notin DOMAIN FieldType
         THEN DecodeMembers(Tail(members), asset)
         ELSE IF m.t # FieldType[m.k]
         THEN [err |-> <<"json: cannot unmarshal", m.t, "into Go struct field", m.k>>,
               asset |-> asset]
         ELSE DecodeMembers(Tail(members), [asset EXCEPT ![m.k] = m.v])

Unmarshal(data) ==
    IF data = Nil
    THEN [err |-> <<"unexpected end of JSON input">>, asset |-> ZeroAsset]
    ELSE DecodeMembers(data, ZeroAsset)

(* ---------------------------- the stub --------------------------------- *)

\* The per-invocation context: the world state it reaches, the store calls it
\* has issued so far, and the ordinal of the store call that fails (0: none).
NewStub(state, failAt) == [state |-> state, calls |-> <<>>, failAt |-> failAt]

Issue(stub, call, key, value) ==
    [stub EXCEPT !.calls = Append(@, [call |-> call, key |-> key, value |-> value])]

Fails(stub) == Len(stub.calls) + 1 = stub.failAt

GetState(stub, key) ==
    [stub  |-> Issue(stub, "GetState", key, Nil),
     value |-> IF Fails(stub) THEN Nil ELSE stub.state[key],
     err   |-> IF Fails(stub) THEN StoreErr("GetState") ELSE NoErr]

PutState(stub, key, value) ==
    [stub |-> IF Fails(stub)
              THEN Issue(stub, "PutState", key, value)
              ELSE [Issue(stub, "PutState", key, value) EXCEPT !.state[key] = value],
     err  |-> IF Fails(stub) THEN StoreErr("PutState") ELSE NoErr]

DelState(stub, key) ==
    [stub |-> IF Fails(stub)
              THEN Issue(stub, "DelState", key, Nil)
              ELSE [Issue(stub, "DelState", key, Nil) EXCEPT !.state[key] = Nil],
     err  |-> IF Fails(stub) THEN StoreErr("DelState") ELSE NoErr]

KeyIndex(key) == CHOOSE i \in DOMAIN Keys : Keys[i] = key

InRange(key, startKey, endKey) ==
    /\ startKey = "" \/ KeyIndex(startKey) <= KeyIndex(key)
    /\ endKey = "" \/ KeyIndex(key) < KeyIndex(endKey)

\* The stored key/value pairs of the range, in key order.
RECURSIVE RangeFrom(_, _, _, _)
RangeFrom(state, i, startKey, endKey) ==
    IF i > Len(Keys) THEN <<>>
    ELSE IF state[Keys[i]] # Nil /\ InRange(Keys[i], startKey, endKey)
         THEN <<[Key |-> Keys[i], Value |-> state[Keys[i]]]>>
              \o RangeFrom(state, i + 1, startKey, endKey)
         ELSE RangeFrom(state, i + 1, startKey, endKey)

GetStateByRange(stub, startKey, endKey) ==
    [stub     |-> Issue(stub, "GetStateByRange", startKey, Nil),
     iterator |-> IF Fails(stub) THEN <<>> ELSE RangeFrom(stub.state, 1, startKey, endKey),
     err      |-> IF Fails(stub) THEN StoreErr("GetStateByRange") ELSE NoErr]

\* resultsIterator.Next() on the remaining pairs.
IterNext(stub, iterator) ==
    [stub          |-> Issue(stub, "Next", "", Nil),
     queryResponse |-> Head(iterator),
     err           |-> IF Fails(stub) THEN StoreErr("Next") ELSE NoErr]

\* resultsIterator.Close(), run by the deferred call.
IterClose(stub) == Issue(stub, "Close", "", Nil)

(* ---------------------------- the contract ----------------------------- *)

\* The dummy assets InitLedger adds, in the order of its slice.
assets ==
    << NewAsset("asset1", "blue", 5, "Tomoko", 300),
       NewAsset("asset2", "red", 5, "Brad", 400),
       NewAsset("asset3", "green", 10, "Jin Soo", 500),
       NewAsset("asset4", "yellow", 10, "Max", 600),
       NewAsset("asset5", "black", 15, "Adriana", 700),
       NewAsset("asset6", "white", 15, "Michel", 800) >>

\* Variant: the loop stops one asset short.
RECURSIVE InitLedgerFrom_SkipsLast(_, _)
InitLedgerFrom_SkipsLast(stub, i) ==
    IF i >= Len(assets) THEN [stub |-> stub, err |-> NoErr]
    ELSE LET asset == assets[i]
             m == Marshal(asset)
             p == PutState(stub, asset.ID, m.json)
         IN IF p.err # NoErr
            THEN [stub |-> p.stub, err |-> ErrPutWorldState(p.err)]
            ELSE InitLedgerFrom_SkipsLast(p.stub, i + 1)

\* Variant: a seed whose id is taken is added under a fresh key instead of
\* overwriting the record.
RECURSIVE InitLedgerFrom_Appends(_, _)
InitLedgerFrom_Appends(stub, i) ==
    IF i > Len(assets) THEN [stub |-> stub, err |-> NoErr]
    ELSE LET asset == assets[i]
             m == Marshal(asset)
             key == IF stub.state[asset.ID] = Nil THEN asset.ID ELSE "asset10"
             p == PutState(stub, key, m.json)
         IN IF p.err # NoErr
            THEN [stub |-> p.stub, err |-> ErrPutWorldState(p.err)]
            ELSE InitLedgerFrom_Appends(p.stub, i + 1)

\* Variant: a seed whose id is taken is skipped.
RECURSIVE InitLedgerFrom_SkipsExisting(_, _)
InitLedgerFrom_SkipsExisting(stub, i) ==
    IF i > Len(assets) THEN [stub |-> stub, err |-> NoErr]
    ELSE LET asset == assets[i]
             m == Marshal(asset)
             p == IF stub.state[asset.ID] = Nil
                  THEN PutState(stub, asset.ID, m.json)
                  ELSE [stub |-> stub, err |-> NoErr]
         IN IF p.err # NoErr
            THEN [stub |-> p.stub, err |-> ErrPutWorldState(p.err)]
            ELSE InitLedgerFrom_SkipsExisting(p.stub, i + 1)

\* Variant: after a failed put the loop goes on and the error is returned at
\* the end.
RECURSIVE InitLedgerFrom_KeepsGoing(_, _)
InitLedgerFrom_KeepsGoing(stub, i) ==
    IF i > Len(assets) THEN [stub |-> stub, err |-> NoErr]
    ELSE LET asset == assets[i]
             m == Marshal(asset)
             p == PutState(stub, asset.ID, m.json)
             rest == InitLedgerFrom_KeepsGoing(p.stub, i + 1)
         IN IF p.err # NoErr
            THEN [stub |-> rest.stub, err |-> ErrPutWorldState(p.err)]
            ELSE rest

\* The loop of InitLedger from the i-th asset on.
RECURSIVE InitLedgerFrom(_, _)
InitLedgerFrom(stub, i) ==
    IF i > Len(assets) THEN [stub |-> stub, err |-> NoErr]
    ELSE LET asset == assets[i]
             m == Marshal(asset)
             p == PutState(stub, asset.ID, m.json)
         IN IF m.err # NoErr THEN [stub |-> stub, err |-> m.err]
            ELSE IF p.err # NoErr
            THEN [stub |-> p.stub,
                  err  |-> ErrPutWorldState(p.err)]
            ELSE InitLedgerFrom(p.stub, i + 1)

InitLedger(stub) == InitLedgerFrom(stub, 1)

\* Variant: a failed read is reported as "does not exist".
AssetExists_SwallowsReadError(stub, id) ==
    LET g == GetState(stub, id)
    IN [stub |-> g.stub, exists |-> g.value # Nil, err |-> NoErr]

AssetExists(stub, id) ==
    LET g == GetState(stub, id)
    IN IF g.err # NoErr
       THEN [stub |-> g.stub, exists |-> FALSE,
             err |-> ErrReadWorldState(id)]
       ELSE [stub |-> g.stub, exists |-> g.value # Nil, err |-> NoErr]

\* Variant: Color and Owner are taken from each other's argument.
CreateAsset_SwapsColorOwner(stub, id, color, size, owner, appraisedValue) ==
    LET e == AssetExists(stub, id)
        asset == NewAsset(id, owner, size, color, appraisedValue)
        m == Marshal(asset)
    IN IF e.err # NoErr THEN [stub |-> e.stub, err |-> e.err]
       ELSE IF e.exists THEN [stub |-> e.stub, err |-> ErrAlreadyExists(id)]
       ELSE PutState(e.stub, id, m.json)

\* Variant: the existence check is missing.
CreateAsset_NoExistsCheck(stub, id, color, size, owner, appraisedValue) ==
    LET e == AssetExists(stub, id)
        asset == NewAsset(id, color, size, owner, appraisedValue)
        m == Marshal(asset)
    IN IF e.err # NoErr THEN [stub |-> e.stub, err |-> e.err]
       ELSE PutState(e.stub, id, m.json)

\* Variant: the existence check is inverted.
CreateAsset_InvertedCheck(stub, id, color, size, owner, appraisedValue) ==
    LET e == AssetExists(stub, id)
        asset == NewAsset(id, color, size, owner, appraisedValue)
        m == Marshal(asset)
    IN IF e.err # NoErr THEN [stub |-> e.stub, err |-> e.err]
       ELSE IF ~e.exists THEN [stub |-> e.stub, err |-> ErrAlreadyExists(id)]
       ELSE PutState(e.stub, id, m.json)

CreateAsset(stub, id, color, size, owner, appraisedValue) ==
    LET e == AssetExists(stub, id)
        asset == NewAsset(id, color, size, owner, appraisedValue)
        m == Marshal(asset)
    IN IF e.err # NoErr THEN [stub |-> e.stub, err |-> e.err]
       ELSE IF e.exists
       THEN [stub |-> e.stub,
             err |-> ErrAlreadyExists(id)]
       ELSE IF m.err # NoErr THEN [stub |-> e.stub, err |-> m.err]
       ELSE PutState(e.stub, id, m.json)

\* The result asset is <<>> for the nil pointer and <<a>> for a pointer to a.
ReadAsset(stub, id) ==
    LET g == GetState(stub, id)
        u == Unmarshal(g.value)
    IN IF g.err # NoErr
       THEN [stub |-> g.stub, asset |-> <<>>,
             err |-> ErrReadWorldState(id)]
       ELSE IF g.value = Nil
       THEN [stub |-> g.stub, asset |-> <<>>,
             err |-> ErrNotExist(id)]
       ELSE IF u.err # NoErr THEN [stub |-> g.stub, asset |-> <<>>, err |-> u.err]
       ELSE [stub |-> g.stub, asset |-> <<u.asset>>, err |-> NoErr]

\* Variant: the existence check is missing, so a missing id is created.
UpdateAsset_Upserts(stub, id, color, size, owner, appraisedValue) ==
    LET e == AssetExists(stub, id)
        updatedAsset == NewAsset(id, color, size, owner, appraisedValue)
        m == Marshal(updatedAsset)
    IN IF e.err # NoErr THEN [stub |-> e.stub, err |-> e.err]
       ELSE PutState(e.stub, id, m.json)

\* Variant: the record is patched, its Owner kept from the prior record.
UpdateAsset_KeepsOwner(stub, id, color, size, owner, appraisedValue) ==
    LET r == ReadAsset(stub, id)
    IN IF r.err # NoErr THEN [stub |-> r.stub, err |-> r.err]
       ELSE PutState(r.stub, id,
                Marshal(NewAsset(id, color, size, r.asset[1].Owner, appraisedValue)).json)

\* Variant: the replacement record is built without its ID.
UpdateAsset_OmitsID(stub, id, color, size, owner, appraisedValue) ==
    LET e == AssetExists(stub, id)
        updatedAsset == NewAsset("", color, size, owner, appraisedValue)
        m == Marshal(updatedAsset)
    IN IF e.err # NoErr THEN [stub |-> e.stub, err |-> e.err]
       ELSE IF ~e.exists THEN [stub |-> e.stub, err |-> ErrNotExist(id)]
       ELSE PutState(e.stub, id, m.json)

UpdateAsset(stub, id, color, size, owner, appraisedValue) ==
    LET e == AssetExists(stub, id)
        updatedAsset == NewAsset(id, color, size, owner, appraisedValue)
        m == Marshal(updatedAsset)
    IN IF e.err # NoErr THEN [stub |-> e.stub, err |-> e.err]
       ELSE IF ~e.exists
       THEN [stub |-> e.stub,
             err |-> ErrNotExist(id)]
       ELSE IF m.err # NoErr THEN [stub |-> e.stub, err |-> m.err]
       ELSE PutState(e.stub, id, m.json)

\* Variant: the DelState call is missing.
DeleteAsset_NoDelState(stub, id) ==
    LET e == AssetExists(stub, id)
    IN IF e.err # NoErr THEN [stub |-> e.stub, err |-> e.err]
       ELSE IF ~e.exists THEN [stub |-> e.stub, err |-> ErrNotExist(id)]
       ELSE [stub |-> e.stub, err |-> NoErr]

\* Variant: a failed DelState is reported by a new error.
DeleteAsset_WrapsDelError(stub, id) ==
    LET e == AssetExists(stub, id)
        d == DelState(e.stub, id)
    IN IF e.err # NoErr THEN [stub |-> e.stub, err |-> e.err]
       ELSE IF ~e.exists THEN [stub |-> e.stub, err |-> ErrNotExist(id)]
       ELSE IF d.err # NoErr
       THEN [stub |-> d.stub, err |-> <<"Failed to delete from world state. ">> \o d.err]
       ELSE d

DeleteAsset(stub, id) ==
    LET e == AssetExists(stub, id)
    IN IF e.err # NoErr THEN [stub |-> e.stub, err |-> e.err]
       ELSE IF ~e.exists
       THEN [stub |-> e.stub,
             err |-> ErrNotExist(id)]
       ELSE DelState(e.stub, id)

\* Variant: a fresh record holding only ID and Owner is written back.
TransferAsset_FreshRecord(stub, id, newOwner) ==
    LET r == ReadAsset(stub, id)
    IN IF r.err # NoErr THEN [stub |-> r.stub, err |-> r.err]
       ELSE PutState(r.stub, id,
                Marshal([ZeroAsset EXCEPT !.ID = id, !.Owner = newOwner]).json)

\* Variant: the record is written back under its owner instead of its id.
TransferAsset_PutsUnderOwner(stub, id, newOwner) ==
    LET r == ReadAsset(stub, id)
    IN IF r.err # NoErr THEN [stub |-> r.stub, err |-> r.err]
       ELSE PutState(r.stub, newOwner,
                Marshal([r.asset[1] EXCEPT !.Owner = newOwner]).json)

\* Variant: the new owner is set on a copy, and the record read is written back.
TransferAsset_KeepsOwner(stub, id, newOwner) ==
    LET r == ReadAsset(stub, id)
    IN IF r.err # NoErr THEN [stub |-> r.stub, err |-> r.err]
       ELSE PutState(r.stub, id, Marshal(r.asset[1]).json)

\* Variant: a missing record is created with the new owner.
TransferAsset_CreatesMissing(stub, id, newOwner) ==
    LET r == ReadAsset(stub, id)
    IN IF r.err = ErrNotExist(id)
       THEN PutState(r.stub, id, Marshal([ZeroAsset EXCEPT !.ID = id, !.Owner = newOwner]).json)
       ELSE IF r.err # NoErr THEN [stub |-> r.stub, err |-> r.err]
       ELSE PutState(r.stub, id, Marshal([r.asset[1] EXCEPT !.Owner = newOwner]).json)

TransferAsset(stub, id, newOwner) ==
    LET r == ReadAsset(stub, id)
    IN IF r.err # NoErr THEN [stub |-> r.stub, err |-> r.err]
       ELSE LET transferedAsset == [r.asset[1] EXCEPT !.Owner = newOwner]
                m == Marshal(transferedAsset)
            IN IF m.err # NoErr THEN [stub |-> r.stub, err |-> m.err]
               ELSE PutState(r.stub, id, m.json)

\* Variant: asset is declared outside the loop, so every appended pointer
\* refers to the asset decoded last.
RECURSIVE GetAllAssetsLoop_SharedAsset(_, _, _)
GetAllAssetsLoop_SharedAsset(stub, iterator, acc) ==
    IF iterator = <<>>
    THEN [stub |-> IterClose(stub), assets |-> acc, err |-> NoErr]
    ELSE LET n == IterNext(stub, iterator)
             u == Unmarshal(n.queryResponse.Value)
         IN IF n.err # NoErr
            THEN [stub |-> IterClose(n.stub), assets |-> <<>>, err |-> n.err]
            ELSE IF u.err # NoErr
            THEN [stub |-> IterClose(n.stub), assets |-> <<>>, err |-> u.err]
            ELSE GetAllAssetsLoop_SharedAsset(n.stub, Tail(iterator),
                     [j \in 1..(Len(acc) + 1) |-> u.asset])

\* Variant: Close is called at the end of the loop instead of being deferred,
\* so the error returns leave the iterator open.
RECURSIVE GetAllAssetsLoop_ClosesAtEnd(_, _, _)
GetAllAssetsLoop_ClosesAtEnd(stub, iterator, acc) ==
    IF iterator = <<>>
    THEN [stub |-> IterClose(stub), assets |-> acc, err |-> NoErr]
    ELSE LET n == IterNext(stub, iterator)
             u == Unmarshal(n.queryResponse.Value)
         IN IF n.err # NoErr
            THEN [stub |-> n.stub, assets |-> <<>>, err |-> n.err]
            ELSE IF u.err # NoErr
            THEN [stub |-> n.stub, assets |-> <<>>, err |-> u.err]
            ELSE GetAllAssetsLoop_ClosesAtEnd(n.stub, Tail(iterator), Append(acc, u.asset))

\* The loop of GetAllAssets over the rest of the iterator; the deferred Close
\* runs on every return.
RECURSIVE GetAllAssetsLoop(_, _, _)
GetAllAssetsLoop(stub, iterator, acc) ==
    IF iterator = <<>>
    THEN [stub |-> IterClose(stub), assets |-> acc, err |-> NoErr]
    ELSE LET n == IterNext(stub, iterator)
             u == Unmarshal(n.queryResponse.Value)
         IN IF n.err # NoErr
            THEN [stub |-> IterClose(n.stub), assets |-> <<>>, err |-> n.err]
            ELSE IF u.err # NoErr
            THEN [stub |-> IterClose(n.stub), assets |-> <<>>, err |-> u.err]
            ELSE GetAllAssetsLoop(n.stub, Tail(iterator), Append(acc, u.asset))

GetAllAssets(stub) ==
    LET r == GetStateByRange(stub, "", "")
    IN IF r.err # NoErr THEN [stub |-> r.stub, assets |-> <<>>, err |-> r.err]
       ELSE GetAllAssetsLoop(r.stub, r.iterator, <<>>)

(* ---------------------------- the state machine ------------------------ *)

\* store: the world state; last: the latest invocation (its function, its
\* arguments, the world state it started from, the store calls it issued and
\* what it returned).
\* inflight: the invocations that run concurrently, one store call per step
\* (idle while invocations run one at a time); mvcc: whether the world state
\* rejects a write by an invocation whose read key was written since it read it.
VARIABLES store, last, inflight, mvcc

vars == <<store, last, inflight, mvcc>>

\* The invocations that may be in flight at once.
Txs == {"tx1", "tx2"}

Idle ==
    [pc |-> "idle", op |-> "none", id |-> "", args |-> <<>>, seen |-> Nil,
     calls |-> <<>>, next |-> 1, conflict |-> FALSE, err |-> NoErr]

EmptyStore == [k \in KeySet |-> Nil]

Invocation(op, id, args, stub, err, exists, ret) ==
    [op |-> op, id |-> id, args |-> args, pre |-> store, failAt |-> stub.failAt,
     calls |-> stub.calls, err |-> err, exists |-> exists, ret |-> ret]

Init ==
    /\ store = EmptyStore
    /\ last = [op |-> "none", id |-> "", args |-> <<>>, pre |-> EmptyStore,
               failAt |-> 0, calls |-> <<>>, err |-> NoErr, exists |-> FALSE,
               ret |-> <<>>]
    /\ inflight = [t \in Txs |-> Idle]
    /\ mvcc = FALSE

InvokeInitLedger(f) ==
    LET r == InitLedger(NewStub(store, f))
    IN /\ store' = r.stub.state
       /\ last' = Invocation("InitLedger", "", <<>>, r.stub, r.err, FALSE, <<>>)
       /\ UNCHANGED <<inflight, mvcc>>

InvokeCreateAsset(id, color, size, owner, appraisedValue, f) ==
    LET r == CreateAsset(NewStub(store, f), id, color, size, owner, appraisedValue)
    IN /\ store' = r.stub.state
       /\ last' = Invocation("CreateAsset", id, <<color, size, owner, appraisedValue>>,
                             r.stub, r.err, FALSE, <<>>)
       /\ UNCHANGED <<inflight, mvcc>>

InvokeReadAsset(id, f) ==
    LET r == ReadAsset(NewStub(store, f), id)
    IN /\ store' = r.stub.state
       /\ last' = Invocation("ReadAsset", id, <<>>, r.stub, r.err, FALSE, r.asset)
       /\ UNCHANGED <<inflight, mvcc>>

InvokeUpdateAsset(id, color, size, owner, appraisedValue, f) ==
    LET r == UpdateAsset(NewStub(store, f), id, color, size, owner, appraisedValue)
    IN /\ store' = r.stub.state
       /\ last' = Invocation("UpdateAsset", id, <<color, size, owner, appraisedValue>>,
                             r.stub, r.err, FALSE, <<>>)
       /\ UNCHANGED <<inflight, mvcc>>

InvokeDeleteAsset(id, f) ==
    LET r == DeleteAsset(NewStub(store, f), id)
    IN /\ store' = r.stub.state
       /\ last' = Invocation("DeleteAsset", id, <<>>, r.stub, r.err, FALSE, <<>>)
       /\ UNCHANGED <<inflight, mvcc>>

InvokeTransferAsset(id, newOwner, f) ==
    LET r == TransferAsset(NewStub(store, f), id, newOwner)
    IN /\ store' = r.stub.state
       /\ last' = Invocation("TransferAsset", id, <<newOwner>>, r.stub, r.err, FALSE, <<>>)
       /\ UNCHANGED <<inflight, mvcc>>

InvokeGetAllAssets(f) ==
    LET r == GetAllAssets(NewStub(store, f))
    IN /\ store' = r.stub.state
       /\ last' = Invocation("GetAllAssets", "", <<>>, r.stub, r.err, FALSE, r.assets)
       /\ UNCHANGED <<inflight, mvcc>>

InvokeAssetExists(id, f) ==
    LET r == AssetExists(NewStub(store, f), id)
    IN /\ store' = r.stub.state
       /\ last' = Invocation("AssetExists", id, <<>>, r.stub, r.err, r.exists, <<>>)
       /\ UNCHANGED <<inflight, mvcc>>

Next ==
    \/ \E f \in NoFault : InvokeInitLedger(f)
    \/ \E id \in Ids, color \in Colors, size \in Sizes, owner \in Owners,
          appraisedValue \in Values, f \in NoFault :
          InvokeCreateAsset(id, color, size, owner, appraisedValue, f)
    \/ \E id \in Ids, f \in NoFault : InvokeReadAsset(id, f)
    \/ \E id \in Ids, color \in Colors, size \in Sizes, owner \in Owners,
          appraisedValue \in Values, f \in NoFault :
          InvokeUpdateAsset(id, color, size, owner, appraisedValue, f)
    \/ \E id \in Ids, f \in NoFault : InvokeDeleteAsset(id, f)
    \/ \E id \in Ids, newOwner \in Owners, f \in NoFault :
          InvokeTransferAsset(id, newOwner, f)
    \/ \E f \in NoFault : InvokeGetAllAssets(f)
    \/ \E id \in Ids, f \in NoFault : InvokeAssetExists(id, f)

Spec == Init /\ [][Next]_vars

(* ---------------------------- store calls that fail -------------------- *)

\* The same invocations, any one store call of which may fail: the n-th call
\* an invocation issues, for n up to the most calls the function can issue.
PointFaults == 0..2

InitLedgerFaults == 0..Len(assets)

ScanFaults == 0..(Len(Keys) + 1)

FaultColor == "red"
FaultSize == 1
FaultValue == 1

NextFault ==
    \/ \E f \in InitLedgerFaults : InvokeInitLedger(f)
    \/ \E id \in Ids, owner \in Owners, f \in PointFaults :
          InvokeCreateAsset(id, FaultColor, FaultSize, owner, FaultValue, f)
    \/ \E id \in Ids, f \in PointFaults : InvokeReadAsset(id, f)
    \/ \E id \in Ids, owner \in Owners, f \in PointFaults :
          InvokeUpdateAsset(id, FaultColor, FaultSize, owner, FaultValue, f)
    \/ \E id \in Ids, f \in PointFaults : InvokeDeleteAsset(id, f)
    \/ \E id \in Ids, newOwner \in Owners, f \in PointFaults :
          InvokeTransferAsset(id, newOwner, f)
    \/ \E f \in ScanFaults : InvokeGetAllAssets(f)
    \/ \E id \in Ids, f \in PointFaults : InvokeAssetExists(id, f)

SpecFault == Init /\ [][NextFault]_vars

(* ---------------------------- scans of any world state ----------------- *)

\* GetAllAssets on a world state that may also hold records this contract did
\* not write: the value stored under a key is absent, a serialized Asset, or a
\* document whose Size is a JSON string.
ScanKeys == {"asset1", "asset10", "asset2"}

GoodRecord(key) == Marshal(NewAsset(key, "red", 1, "Brad", 1)).json

ForeignRecord(key) ==
    [GoodRecord(key) EXCEPT ![5] = [k |-> "Size", t |-> "string", v |-> "1"]]

ScanStore(shape) ==
    [key \in KeySet |->
        IF key \notin ScanKeys \/ shape[key] = "absent" THEN Nil
        ELSE IF shape[key] = "asset" THEN GoodRecord(key)
        ELSE ForeignRecord(key)]

InitScan ==
    /\ \E shape \in [ScanKeys -> {"absent", "asset", "foreign"}] : store = ScanStore(shape)
    /\ last = [op |-> "none", id |-> "", args |-> <<>>, pre |-> EmptyStore,
               failAt |-> 0, calls |-> <<>>, err |-> NoErr, exists |-> FALSE,
               ret |-> <<>>]
    /\ inflight = [t \in Txs |-> Idle]
    /\ mvcc = FALSE

NextScan == \E f \in ScanFaults : InvokeGetAllAssets(f)

SpecScan == InitScan /\ [][NextScan]_vars

(* ---------------------------- concurrent invocations ------------------- *)

\* Invocations interleave at their store calls, each call one atomic step whose
\* effect is visible at once.  Every function of the contract reads the world
\* state at most once, with its first store call, so all it does after that
\* call is determined by what the call returned: the step that issues the
\* first call runs the function on the world state of that moment and keeps
\* the calls it goes on to issue, and each later step issues the next of them
\* on the world state as it is then.
ConcIds == {"asset1"}

ConcOwners == {"Brad", "Max"}

ConcColor == "red"
ConcSize == 1
ConcValue == 1

IsWrite(call) == call.call \in {"PutState", "DelState"}

\* The world state after the store call is issued on it.
ApplyCall(state, call) ==
    IF call.call = "PutState" THEN PutState(NewStub(state, 0), call.key, call.value).stub.state
    ELSE IF call.call = "DelState" THEN DelState(NewStub(state, 0), call.key).stub.state
    ELSE state

\* An invocation that has read a key and not yet returned learns nothing of a
\* write to that key: conflict records that one was issued since its read.
Touch(tx, call) ==
    IF tx.pc = "running" /\ IsWrite(call) /\ call.key = tx.id
    THEN [tx EXCEPT !.conflict = TRUE]
    ELSE tx

\* The error of an invocation whose write the validating world state rejects.
MVCCReadConflict == <<"MVCC_READ_CONFLICT">>

\* Invocation t starts and issues its first store call; r is what the function
\* does on the current world state.
Start(t, op, id, args, r) ==
    LET first == r.stub.calls[1]
    IN /\ inflight[t].pc \in {"idle", "done"}
       /\ store' = ApplyCall(store, first)
       /\ inflight' =
              [u \in Txs |->
                  IF u = t
                  THEN [pc |-> IF Len(r.stub.calls) > 1 THEN "running" ELSE "done",
                        op |-> op, id |-> id, args |-> args,
                        seen |-> IF first.call = "GetState" THEN store[first.key] ELSE Nil,
                        calls |-> r.stub.calls, next |-> 2, conflict |-> FALSE,
                        err |-> r.err]
                  ELSE Touch(inflight[u], first)]
       /\ UNCHANGED <<last, mvcc>>

StartInitLedger(t) ==
    Start(t, "InitLedger", "", <<>>, InitLedger(NewStub(store, 0)))

StartCreateAsset(t, id, color, size, owner, appraisedValue) ==
    Start(t, "CreateAsset", id, <<color, size, owner, appraisedValue>>,
          CreateAsset(NewStub(store, 0), id, color, size, owner, appraisedValue))

StartUpdateAsset(t, id, color, size, owner, appraisedValue) ==
    Start(t, "UpdateAsset", id, <<color, size, owner, appraisedValue>>,
          UpdateAsset(NewStub(store, 0), id, color, size, owner, appraisedValue))

StartDeleteAsset(t, id) ==
    Start(t, "DeleteAsset", id, <<>>, DeleteAsset(NewStub(store, 0), id))

StartTransferAsset(t, id, newOwner) ==
    Start(t, "TransferAsset", id, <<newOwner>>, TransferAsset(NewStub(store, 0), id, newOwner))

\* Invocation t issues its next store call; with mvcc the world state rejects
\* the write of an invocation whose read key was written since it read it.
IssueNext(t) ==
    LET tx == inflight[t]
        call == tx.calls[tx.next]
        rejected == mvcc /\ tx.conflict /\ IsWrite(call)
    IN /\ tx.pc = "running"
       /\ store' = IF rejected THEN store ELSE ApplyCall(store, call)
       /\ inflight' =
              [u \in Txs |->
                  IF u = t
                  THEN [tx EXCEPT !.next = @ + 1,
                                  !.pc = IF rejected \/ tx.next + 1 > Len(tx.calls)
                                         THEN "done" ELSE "running",
                                  !.err = IF rejected THEN MVCCReadConflict ELSE @]
                  ELSE IF rejected THEN inflight[u] ELSE Touch(inflight[u], call)]
       /\ UNCHANGED <<last, mvcc>>

InitConc ==
    /\ store = EmptyStore
    /\ last = [op |-> "none", id |-> "", args |-> <<>>, pre |-> EmptyStore,
               failAt |-> 0, calls |-> <<>>, err |-> NoErr, exists |-> FALSE,
               ret |-> <<>>]
    /\ inflight = [t \in Txs |-> Idle]
    /\ mvcc \in BOOLEAN

NextConc ==
    \/ \E t \in Txs : StartInitLedger(t)
    \/ \E t \in Txs, id \in ConcIds, owner \in ConcOwners :
          StartCreateAsset(t, id, ConcColor, ConcSize, owner, ConcValue)
    \/ \E t \in Txs, id \in ConcIds, owner \in ConcOwners :
          StartUpdateAsset(t, id, ConcColor, ConcSize, owner, ConcValue)
    \/ \E t \in Txs, id \in ConcIds : StartDeleteAsset(t, id)
    \/ \E t \in Txs, id \in ConcIds, newOwner \in ConcOwners : StartTransferAsset(t, id, newOwner)
    \/ \E t \in Txs : IssueNext(t)

SpecConc == InitConc /\ [][NextConc]_vars

(* ---------------------------- typing ----------------------------------- *)

OpNames == {"none", "InitLedger", "CreateAsset", "ReadAsset", "UpdateAsset",
            "DeleteAsset", "TransferAsset", "GetAllAssets", "AssetExists"}

TypeOK ==
    /\ DOMAIN store = KeySet
    /\ last.op \in OpNames

(* ---------------------------- properties ------------------------------- *)

\* The asset a CreateAsset or UpdateAsset invocation was called with.
ArgAsset(inv) == NewAsset(inv.id, inv.args[1], inv.args[2], inv.args[3], inv.args[4])

\* The asset as encoding/json stores it: strings coerced to valid UTF-8.
Coerced(asset) ==
    [asset EXCEPT !.Color = ToValidUTF8(@), !.ID = ToValidUTF8(@), !.Owner = ToValidUTF8(@)]

\* A ReadAsset of id issued on the current world state, no store call failing.
ReadNow(id) == ReadAsset(NewStub(store, 0), id)

Wrote(inv) == \E i \in DOMAIN inv.calls : inv.calls[i].call \in {"PutState", "DelState"}

StoredKeys(state) == {k \in KeySet : state[k] # Nil}

\* C1 as stated: for every asset tuple whose id is not stored, CreateAsset
\* succeeds and a ReadAsset of the id directly afterwards returns a record whose
\* five fields equal exactly the input tuple.
C1_CreateReadExact ==
    (last.op = "CreateAsset" /\ last.failAt = 0 /\ last.pre[last.id] = Nil) =>
        /\ last.err = NoErr
        /\ ReadNow(last.id).err = NoErr
        /\ ReadNow(last.id).asset = <<ArgAsset(last)>>

\* C1 amended: for every asset tuple whose id is not stored, CreateAsset
\* succeeds and a ReadAsset of the id directly afterwards returns the input
\* tuple with every invalid UTF-8 byte of its strings replaced by U+FFFD; hence
\* exactly the input tuple when its strings are valid UTF-8.
C1_CreateReadRoundTrip ==
    (last.op = "CreateAsset" /\ last.failAt = 0 /\ last.pre[last.id] = Nil) =>
        /\ last.err = NoErr
        /\ ReadNow(last.id).err = NoErr
        /\ ReadNow(last.id).asset = <<Coerced(ArgAsset(last))>>
        /\ (ValidUTF8(last.args[1]) /\ ValidUTF8(last.args[3]))
               => ReadNow(last.id).asset = <<ArgAsset(last)>>

C1_Witness ==
    /\ last.op = "CreateAsset" /\ last.failAt = 0 /\ last.pre[last.id] = Nil
    /\ last.err = NoErr
    /\ ValidUTF8(last.args[1]) /\ ValidUTF8(last.args[3])
    /\ ReadNow(last.id).asset = <<ArgAsset(last)>>

\* C2: CreateAsset on an id under which a record is stored fails with the
\* duplicate-ID error and leaves the whole store unchanged, whatever the other
\* four arguments are.
C2_CreateDuplicateRejected ==
    (last.op = "CreateAsset" /\ last.failAt = 0 /\ last.pre[last.id] # Nil) =>
        /\ last.err = ErrAlreadyExists(last.id)
        /\ ~Wrote(last)
        /\ store = last.pre

C2_Witness ==
    /\ last.op = "CreateAsset" /\ last.failAt = 0 /\ last.pre[last.id] # Nil
    /\ last.err = ErrAlreadyExists(last.id)
    /\ Unmarshal(last.pre[last.id]).asset # Coerced(ArgAsset(last))
    /\ store[last.id] = last.pre[last.id]

\* C3: ReadAsset, UpdateAsset, DeleteAsset and TransferAsset on an id under
\* which no record is stored fail with the not-found error and issue no store
\* write or delete, so the store is the same before and after the call.
C3_MissingIdNotFound ==
    (/\ last.op \in {"ReadAsset", "UpdateAsset", "DeleteAsset", "TransferAsset"}
     /\ last.failAt = 0 /\ last.pre[last.id] = Nil) =>
        /\ last.err = ErrNotExist(last.id)
        /\ ~Wrote(last)
        /\ store = last.pre
        /\ last.ret = <<>>

C3_Witness ==
    /\ last.op = "UpdateAsset" /\ last.failAt = 0 /\ last.pre[last.id] = Nil
    /\ last.err = ErrNotExist(last.id)
    /\ StoredKeys(last.pre) # {}
    /\ store = last.pre

\* C4 as stated: a successful UpdateAsset(id, v2) followed directly by
\* ReadAsset(id) returns exactly v2 with ID = id.
C4_UpdateReadExact ==
    (last.op = "UpdateAsset" /\ last.failAt = 0 /\ last.err = NoErr) =>
        /\ ReadNow(last.id).err = NoErr
        /\ ReadNow(last.id).asset = <<ArgAsset(last)>>

\* C4 amended: a successful UpdateAsset(id, v2) followed directly by
\* ReadAsset(id) returns v2 with ID = id and with every invalid UTF-8 byte of
\* its strings replaced by U+FFFD (exactly v2 when they are valid UTF-8); no
\* field is inherited from the prior record.
C4_UpdateReplacesAllFields ==
    (last.op = "UpdateAsset" /\ last.failAt = 0 /\ last.err = NoErr) =>
        /\ last.pre[last.id] # Nil
        /\ ReadNow(last.id).err = NoErr
        /\ ReadNow(last.id).asset = <<Coerced(ArgAsset(last))>>
        /\ (ValidUTF8(last.args[1]) /\ ValidUTF8(last.args[3]))
               => ReadNow(last.id).asset = <<ArgAsset(last)>>

\* The prior record differs from v2 in all of Color, Size, Owner, AppraisedValue.
C4_Witness ==
    /\ last.op = "UpdateAsset" /\ last.failAt = 0 /\ last.err = NoErr
    /\ ValidUTF8(last.args[1]) /\ ValidUTF8(last.args[3])
    /\ LET v1 == Unmarshal(last.pre[last.id]).asset
           v2 == ArgAsset(last)
       IN /\ v1.Color # v2.Color /\ v1.Size # v2.Size
          /\ v1.Owner # v2.Owner /\ v1.AppraisedValue # v2.AppraisedValue
          /\ ReadNow(last.id).asset = <<v2>>

\* C5 as stated: a successful TransferAsset(id, newOwner) leaves the record
\* under id with Owner = newOwner and with ID, Color, Size and AppraisedValue
\* equal to their values immediately before the transfer.
C5_TransferOwnerExact ==
    (last.op = "TransferAsset" /\ last.failAt = 0 /\ last.err = NoErr) =>
        Unmarshal(store[last.id]).asset
            = [Unmarshal(last.pre[last.id]).asset EXCEPT !.Owner = last.args[1]]

\* C5 amended: a successful TransferAsset(id, newOwner) leaves the record
\* under id with Owner = newOwner with every invalid UTF-8 byte replaced by
\* U+FFFD (newOwner itself when it is valid UTF-8) and with ID, Color, Size and
\* AppraisedValue equal to their values immediately before the transfer.
C5_TransferChangesOnlyOwner ==
    (last.op = "TransferAsset" /\ last.failAt = 0 /\ last.err = NoErr) =>
        /\ last.pre[last.id] # Nil
        /\ Unmarshal(store[last.id]).err = NoErr
        /\ Unmarshal(store[last.id]).asset
               = [Unmarshal(last.pre[last.id]).asset
                      EXCEPT !.Owner = ToValidUTF8(last.args[1])]
        /\ ValidUTF8(last.args[1]) => Unmarshal(store[last.id]).asset.Owner = last.args[1]

C5_Witness ==
    /\ last.op = "TransferAsset" /\ last.failAt = 0 /\ last.err = NoErr
    /\ ValidUTF8(last.args[1])
    /\ Unmarshal(last.pre[last.id]).asset.Owner # last.args[1]
    /\ Unmarshal(store[last.id]).asset.Owner = last.args[1]
    /\ Unmarshal(store[last.id]).asset.Color = Unmarshal(last.pre[last.id]).asset.Color

\* A CreateAsset, InitLedger or GetAllAssets issued on the current world
\* state, no store call failing.
CreateNow(id, color, size, owner, appraisedValue) ==
    CreateAsset(NewStub(store, 0), id, color, size, owner, appraisedValue)

InitLedgerNow == InitLedger(NewStub(store, 0))

GetAllNow == GetAllAssets(NewStub(store, 0))

\* C6: after a successful DeleteAsset(id), ReadAsset(id) fails with not-found,
\* and CreateAsset with the same id and any field values succeeds and stores
\* the serialization of the new tuple, leaving every other key as it was.
C6_DeleteThenReadOrCreate ==
    (last.op = "DeleteAsset" /\ last.failAt = 0 /\ last.err = NoErr) =>
        /\ last.pre[last.id] # Nil
        /\ ReadNow(last.id).err = ErrNotExist(last.id)
        /\ ReadNow(last.id).asset = <<>>
        /\ \A color \in Colors, size \in Sizes, owner \in Owners, appraisedValue \in Values :
               LET c == CreateNow(last.id, color, size, owner, appraisedValue)
               IN /\ c.err = NoErr
                  /\ c.stub.state = [store EXCEPT ![last.id] =
                         Marshal(NewAsset(last.id, color, size, owner, appraisedValue)).json]

C6_Witness ==
    /\ last.op = "DeleteAsset" /\ last.failAt = 0 /\ last.err = NoErr
    /\ last.pre[last.id] # Nil
    /\ store[last.id] = Nil
    /\ ReadNow(last.id).err = ErrNotExist(last.id)
    /\ CreateNow(last.id, "red", 1, "Brad", 1).err = NoErr

\* C7: starting from an empty store, a successful InitLedger followed by
\* GetAllAssets returns exactly six records, one for each of asset1..asset6
\* with the fixed seed values, ordered by store key.
C7_InitThenGetAll ==
    (last.op = "InitLedger" /\ last.failAt = 0 /\ last.err = NoErr
        /\ last.pre = EmptyStore) =>
        /\ GetAllNow.err = NoErr
        /\ Len(GetAllNow.assets) = 6
        /\ GetAllNow.assets =
               << [ID |-> "asset1", Color |-> "blue", Size |-> 5, Owner |-> "Tomoko",
                   AppraisedValue |-> 300],
                  [ID |-> "asset2", Color |-> "red", Size |-> 5, Owner |-> "Brad",
                   AppraisedValue |-> 400],
                  [ID |-> "asset3", Color |-> "green", Size |-> 10, Owner |-> "Jin Soo",
                   AppraisedValue |-> 500],
                  [ID |-> "asset4", Color |-> "yellow", Size |-> 10, Owner |-> "Max",
                   AppraisedValue |-> 600],
                  [ID |-> "asset5", Color |-> "black", Size |-> 15, Owner |-> "Adriana",
                   AppraisedValue |-> 700],
                  [ID |-> "asset6", Color |-> "white", Size |-> 15, Owner |-> "Michel",
                   AppraisedValue |-> 800] >>

C7_Witness ==
    /\ last.op = "InitLedger" /\ last.failAt = 0 /\ last.err = NoErr
    /\ last.pre = EmptyStore
    /\ Len(GetAllNow.assets) = 6
    /\ GetAllNow.assets[6].Owner = "Michel"

\* C8: a second successful InitLedger run directly after a successful first one
\* leaves the store identical to its state after the first; from an empty
\* store two runs leave exactly the six seed records.
C8_InitLedgerIdempotent ==
    (last.op = "InitLedger" /\ last.failAt = 0 /\ last.err = NoErr
        /\ InitLedgerNow.err = NoErr) =>
        /\ InitLedgerNow.stub.state = store
        /\ last.pre = EmptyStore =>
               /\ Cardinality(StoredKeys(InitLedgerNow.stub.state)) = 6
               /\ StoredKeys(InitLedgerNow.stub.state) = {assets[i].ID : i \in DOMAIN assets}

C8_Witness ==
    /\ last.op = "InitLedger" /\ last.failAt = 0 /\ last.err = NoErr
    /\ last.pre = EmptyStore
    /\ Cardinality(StoredKeys(store)) = 6
    /\ InitLedgerNow.err = NoErr
    /\ InitLedgerNow.stub.state = store
    /\ Len(InitLedgerNow.stub.calls) = 6

\* C9: with no failing store call, GetAllAssets returns exactly one record per
\* stored key, in store key order, each equal to the record stored under that
\* key, and nothing else; on an empty store it returns an empty sequence and
\* no error.
C9_GetAllReturnsStore ==
    (last.op = "GetAllAssets" /\ last.failAt = 0) =>
        /\ last.err = NoErr
        /\ store = last.pre
        /\ Len(last.ret) = Cardinality(StoredKeys(last.pre))
        /\ \A i \in DOMAIN last.ret :
               /\ last.ret[i].ID \in StoredKeys(last.pre)
               /\ last.ret[i] = Unmarshal(last.pre[last.ret[i].ID]).asset
        /\ \A i, j \in DOMAIN last.ret :
               i < j => KeyIndex(last.ret[i].ID) < KeyIndex(last.ret[j].ID)
        /\ last.pre = EmptyStore => last.ret = <<>>

\* All seven keys are stored, asset10 between asset1 and asset2.
C9_Witness ==
    /\ last.op = "GetAllAssets" /\ last.failAt = 0 /\ last.err = NoErr
    /\ Len(last.ret) = 7
    /\ last.ret[1].ID = "asset1" /\ last.ret[2].ID = "asset10" /\ last.ret[3].ID = "asset2"
    /\ last.ret[1].Owner # last.ret[2].Owner

\* C10: from any store state a successful InitLedger leaves each of
\* asset1..asset6 holding exactly its fixed seed values and leaves the records
\* under every other id unchanged.
C10_InitLedgerOverwrites ==
    (last.op = "InitLedger" /\ last.failAt = 0 /\ last.err = NoErr) =>
        /\ \A i \in DOMAIN assets :
               /\ Unmarshal(store[assets[i].ID]).err = NoErr
               /\ Unmarshal(store[assets[i].ID]).asset = assets[i]
        /\ \A k \in KeySet \ {assets[i].ID : i \in DOMAIN assets} : store[k] = last.pre[k]
        /\ Len(last.calls) = 6
        /\ \A i \in DOMAIN last.calls : last.calls[i].call = "PutState"

\* asset1 held a record other than its seed, and a non-seed record is stored.
C10_Witness ==
    /\ last.op = "InitLedger" /\ last.failAt = 0 /\ last.err = NoErr
    /\ last.pre["asset1"] # Nil
    /\ Unmarshal(last.pre["asset1"]).asset # assets[1]
    /\ Unmarshal(store["asset1"]).asset = assets[1]
    /\ last.pre["asset10"] # Nil
    /\ store["asset10"] = last.pre["asset10"]

(* ---------------------------- properties: failing store calls ---------- *)

\* A store call of the invocation failed; the call that did.
Failed(inv) == inv.failAt \in 1..Len(inv.calls)

FailedCall(inv) == inv.calls[inv.failAt]

CallsOf(inv, names) == {i \in DOMAIN inv.calls : inv.calls[i].call \in names}

\* C11 as stated: whenever the store's put or delete call fails, the operation
\* that issued it (CreateAsset, UpdateAsset, TransferAsset, DeleteAsset and also
\* InitLedger) aborts and returns the store's error value unchanged.
C11_WriteErrorUnchanged ==
    (Failed(last) /\ FailedCall(last).call \in {"PutState", "DelState"}) =>
        /\ last.failAt = Len(last.calls)
        /\ last.err = StoreErr(FailedCall(last).call)

\* C11 amended: whenever the store's put or delete call fails, the operation
\* that issued it aborts (it issues no further store call); CreateAsset,
\* UpdateAsset, TransferAsset and DeleteAsset return the store's error value
\* unchanged, and InitLedger returns a new error whose message is "Failed to
\* put to world state. " followed by the store error's message.
C11_WriteErrorPropagated ==
    (Failed(last) /\ FailedCall(last).call \in {"PutState", "DelState"}) =>
        /\ last.failAt = Len(last.calls)
        /\ last.op \in {"CreateAsset", "UpdateAsset", "TransferAsset", "DeleteAsset",
                        "InitLedger"}
        /\ last.op # "InitLedger" => last.err = StoreErr(FailedCall(last).call)
        /\ last.op = "InitLedger" =>
               last.err = <<"Failed to put to world state. ", "store", "PutState">>

C11_Witness ==
    /\ last.op = "DeleteAsset" /\ Failed(last)
    /\ FailedCall(last).call = "DelState"
    /\ last.err = StoreErr("DelState")
    /\ store = last.pre /\ store[last.id] # Nil

\* C12: InitLedger writes the seeds in the order asset1..asset6 and fails fast:
\* if the put of the k-th seed fails, the call returns an error, seeds 1..k-1
\* have been written with their seed values, no put is issued for seeds
\* k+1..6, and the store differs from its prior state by exactly that prefix.
C12_InitLedgerFailsFast ==
    (last.op = "InitLedger" /\ Failed(last)) =>
        LET k == last.failAt
            written == {assets[i].ID : i \in 1..(k - 1)}
        IN /\ last.err # NoErr
           /\ Len(last.calls) = k
           /\ \A i \in 1..k :
                  /\ last.calls[i].call = "PutState"
                  /\ last.calls[i].key = "asset" \o ToString(i)
           /\ \A i \in 1..(k - 1) :
                  /\ Unmarshal(store[assets[i].ID]).err = NoErr
                  /\ Unmarshal(store[assets[i].ID]).asset = assets[i]
           /\ \A key \in KeySet \ written : store[key] = last.pre[key]

\* The third put fails: asset1 and asset2 now hold their seeds, asset3 is
\* still absent, and asset1 held another record before.
C12_Witness ==
    /\ last.op = "InitLedger" /\ last.failAt = 3 /\ Len(last.calls) = 3
    /\ last.err # NoErr
    /\ last.pre["asset1"] # Nil /\ last.pre["asset1"] # store["asset1"]
    /\ last.pre["asset2"] = Nil /\ store["asset2"] # Nil
    /\ store["asset3"] = Nil

\* C13: every operation issues at most one store write or delete per call, and
\* only to the key equal to its id argument (InitLedger: at most six puts, one
\* per seed id); AssetExists, ReadAsset and GetAllAssets issue none.  Hence
\* CreateAsset, UpdateAsset, DeleteAsset and TransferAsset on id leave the
\* records under every other key unchanged, whether they succeed or fail.
C13_WritesOnlyOwnKey ==
    LET writes == CallsOf(last, {"PutState", "DelState"})
    IN /\ last.op \in {"CreateAsset", "UpdateAsset", "DeleteAsset", "TransferAsset"} =>
              /\ Cardinality(writes) <= 1
              /\ \A i \in writes : last.calls[i].key = last.id
              /\ \A key \in KeySet \ {last.id} : store[key] = last.pre[key]
       /\ last.op = "InitLedger" =>
              /\ Cardinality(writes) <= 6
              /\ \A i \in writes :
                     /\ last.calls[i].call = "PutState"
                     /\ last.calls[i].key \in {"asset1", "asset2", "asset3", "asset4",
                                               "asset5", "asset6"}
              /\ \A i, j \in writes : i # j => last.calls[i].key # last.calls[j].key
       /\ last.op \in {"AssetExists", "ReadAsset", "GetAllAssets", "none"} =>
              /\ writes = {}
              /\ store = last.pre

\* A transfer that succeeded with one put, a record stored under the other id.
C13_Witness ==
    /\ last.op = "TransferAsset" /\ last.err = NoErr
    /\ Cardinality(CallsOf(last, {"PutState", "DelState"})) = 1
    /\ store[last.id] # last.pre[last.id]
    /\ \E key \in KeySet \ {last.id} : store[key] # Nil /\ store[key] = last.pre[key]

\* C14: when the store's point read of id fails, AssetExists and ReadAsset
\* return an error (neither the answer "false" nor not-found), and CreateAsset,
\* UpdateAsset, DeleteAsset and TransferAsset surface that error at once: they
\* issue no put or delete, leave the store unchanged and do not retry the read
\* (exactly one get per call).
C14_ReadErrorSurfaced ==
    (Failed(last) /\ FailedCall(last).call = "GetState") =>
        /\ last.op \in {"AssetExists", "ReadAsset", "CreateAsset", "UpdateAsset",
                        "DeleteAsset", "TransferAsset"}
        /\ last.err # NoErr
        /\ last.err # ErrNotExist(last.id)
        /\ last.err = <<"Failed to read world state for asset with id ", last.id>>
        /\ last.ret = <<>>
        /\ Len(last.calls) = 1
        /\ last.calls[1] = [call |-> "GetState", key |-> last.id, value |-> Nil]
        /\ store = last.pre

\* The read of a CreateAsset on an absent id fails: nothing is created.
C14_Witness ==
    /\ last.op = "CreateAsset" /\ last.failAt = 1 /\ Len(last.calls) = 1
    /\ last.pre[last.id] = Nil /\ store[last.id] = Nil
    /\ last.err = ErrReadWorldState(last.id)
    /\ StoredKeys(store) # {}

\* C15: every GetAllAssets call opens exactly one range scan, and the scan it
\* opened is released exactly once, as the last store call before the call
\* returns, on every exit path: normal completion, an iteration (Next) error
\* and a deserialization error; when GetStateByRange itself fails no scan was
\* opened and none is released.
C15_ScanReleasedOnce ==
    (last.op = "GetAllAssets") =>
        LET opens == CallsOf(last, {"GetStateByRange"})
            closes == CallsOf(last, {"Close"})
        IN /\ opens = {1}
           /\ IF last.failAt = 1
              THEN closes = {} /\ last.err # NoErr
              ELSE closes = {Len(last.calls)}
           /\ last.err # NoErr => last.ret = <<>>

\* The deserialization-error exit: the second pair of the scan does not decode.
C15_Witness ==
    /\ last.op = "GetAllAssets" /\ ~Failed(last)
    /\ last.err = <<"json: cannot unmarshal", "string", "into Go struct field", "Size">>
    /\ Len(last.calls) = 4
    /\ last.calls[3].call = "Next"
    /\ last.calls[4].call = "Close"

C15_WitnessNextError ==
    /\ last.op = "GetAllAssets" /\ Failed(last) /\ FailedCall(last).call = "Next"
    /\ CallsOf(last, {"Close"}) = {Len(last.calls)}

C15_WitnessNormal ==
    /\ last.op = "GetAllAssets" /\ last.err = NoErr /\ Len(last.ret) = 3
    /\ CallsOf(last, {"Close"}) = {Len(last.calls)}

\* The errors json.Unmarshal returns.
IsUnmarshalErr(err) ==
    /\ err # NoErr
    /\ err[1] \in {"json: cannot unmarshal", "unexpected end of JSON input"}

\* C16: after any sequence of registry operations starting from an empty
\* store, calls that fail included, every value in the store is a well-formed
\* five-field record whose ID field equals the key it is stored under, and the
\* malformed-record error of ReadAsset, TransferAsset and GetAllAssets does not
\* occur.
C16_StoredRecordsWellFormed ==
    /\ \A key \in KeySet :
           store[key] # Nil =>
               /\ Len(store[key]) = 5
               /\ {store[key][i].k : i \in 1..5}
                      = {"AppraisedValue", "Color", "ID", "Owner", "Size"}
               /\ Unmarshal(store[key]).err = NoErr
               /\ Unmarshal(store[key]).asset.ID = key
               /\ last.pre[key] # Nil /\ last.op \in {"UpdateAsset", "TransferAsset"}
                      => Unmarshal(last.pre[key]).asset.ID = Unmarshal(store[key]).asset.ID
    /\ ~IsUnmarshalErr(last.err)

\* Both ids hold records, one just rewritten by a transfer, after which
\* GetAllAssets decodes both.
C16_Witness ==
    /\ last.op = "TransferAsset" /\ last.err = NoErr
    /\ \A id \in Ids : store[id] # Nil /\ Unmarshal(store[id]).asset.ID = id
    /\ store[last.id] # last.pre[last.id]
    /\ GetAllNow.err = NoErr

(* ---------------------------- properties: concurrent invocations ------- *)

\* Invocation t issues a store call after its first one in this step.
IssueStep(t) ==
    /\ inflight[t].pc = "running"
    /\ inflight'[t].next = inflight[t].next + 1

IssuedCall(t) == inflight[t].calls[inflight[t].next]

Put(id, asset) == [call |-> "PutState", key |-> id, value |-> Marshal(asset).json]

\* C17: CreateAsset's existence check and its write are two separate store
\* steps.  A CreateAsset that read its id absent goes on to put its record
\* whatever was written under the id since: without validating world state the
\* put takes effect, overwriting an earlier put, and the invocation succeeds
\* (no duplicate-ID error); the write is refused only when the world state
\* rejects invocations whose read key was written since they read it, and then
\* every CreateAsset whose put takes effect wrote to an absent id.
C17_CreateCheckThenWrite ==
    [][\A t \in Txs :
          (inflight[t].op = "CreateAsset" /\ IssueStep(t)) =>
              LET tx == inflight[t]
                  asset == NewAsset(tx.id, tx.args[1], tx.args[2], tx.args[3], tx.args[4])
              IN /\ tx.seen = Nil
                 /\ tx.err = NoErr
                 /\ IssuedCall(t) = Put(tx.id, asset)
                 /\ inflight'[t].pc = "done"
                 /\ ~mvcc =>
                        /\ store' = [store EXCEPT ![tx.id] = Marshal(asset).json]
                        /\ inflight'[t].err = NoErr
                 /\ (mvcc /\ tx.conflict) =>
                        /\ store' = store
                        /\ inflight'[t].err = MVCCReadConflict
                 /\ (mvcc /\ ~tx.conflict) =>
                        /\ store[tx.id] = Nil
                        /\ store' = [store EXCEPT ![tx.id] = Marshal(asset).json]
    ]_vars

\* Two CreateAsset invocations on the same id both passed the check and both
\* put; the one that put last, after the other's put, holds the id.
C17_Witness ==
    /\ ~mvcc
    /\ \A t \in Txs :
           /\ inflight[t].op = "CreateAsset" /\ inflight[t].pc = "done"
           /\ inflight[t].id = "asset1"
           /\ inflight[t].seen = Nil /\ inflight[t].err = NoErr
           /\ Len(inflight[t].calls) = 2
    /\ inflight["tx1"].args # inflight["tx2"].args
    /\ inflight["tx2"].conflict /\ ~inflight["tx1"].conflict
    /\ store["asset1"] = inflight["tx2"].calls[2].value
    /\ store["asset1"] # inflight["tx1"].calls[2].value

\* The record a TransferAsset invocation read, with its new owner.
StaleCopy(tx) == [Unmarshal(tx.seen).asset EXCEPT !.Owner = tx.args[1]]

\* C18: TransferAsset is a full-record read-modify-write.  Its put writes the
\* record it read with only Owner changed; when another write to the id landed
\* between its read and its put, it still succeeds and that write is lost,
\* unless the world state rejects invocations whose read key was written since
\* they read it: then the put of such a TransferAsset is refused, and every
\* TransferAsset whose put takes effect changes only Owner of the record
\* stored at that moment.
C18_TransferReadModifyWrite ==
    [][\A t \in Txs :
          (inflight[t].op = "TransferAsset" /\ IssueStep(t)) =>
              LET tx == inflight[t]
              IN /\ tx.seen # Nil
                 /\ IssuedCall(t) = Put(tx.id, StaleCopy(tx))
                 /\ inflight'[t].pc = "done"
                 /\ ~mvcc =>
                        /\ store' = [store EXCEPT ![tx.id] = Marshal(StaleCopy(tx)).json]
                        /\ inflight'[t].err = NoErr
                 /\ (mvcc /\ tx.conflict) =>
                        /\ store' = store
                        /\ inflight'[t].err = MVCCReadConflict
                 /\ (mvcc /\ ~tx.conflict) =>
                        /\ store[tx.id] = tx.seen
                        /\ Unmarshal(store'[tx.id]).asset
                               = [Unmarshal(store[tx.id]).asset EXCEPT !.Owner = tx.args[1]]
    ]_vars

\* An UpdateAsset landed between the read and the put of a TransferAsset: both
\* succeeded, and the record holds the transfer's stale copy, not the update's
\* Color.
C18_Witness ==
    /\ ~mvcc
    /\ inflight["tx1"].op = "TransferAsset" /\ inflight["tx1"].pc = "done"
    /\ inflight["tx1"].err = NoErr /\ inflight["tx1"].conflict
    /\ inflight["tx2"].op = "UpdateAsset" /\ inflight["tx2"].pc = "done"
    /\ inflight["tx2"].err = NoErr /\ Len(inflight["tx2"].calls) = 2
    /\ inflight["tx2"].id = inflight["tx1"].id
    /\ store[inflight["tx1"].id] = Marshal(StaleCopy(inflight["tx1"])).json
    /\ Unmarshal(store[inflight["tx1"].id]).asset.Color # inflight["tx2"].args[1]

\* The put of invocation t takes effect in this step.
PutTakesEffect(t) ==
    /\ IssueStep(t)
    /\ IssuedCall(t).call = "PutState"
    /\ inflight'[t].err # MVCCReadConflict

\* C19 as stated: in every interleaving, UpdateAsset and TransferAsset put a
\* value under id only if a record is stored under id at the moment of the put.
C19_PutOnlyOnStored ==
    [][\A t \in Txs :
          (inflight[t].op \in {"UpdateAsset", "TransferAsset"} /\ PutTakesEffect(t)) =>
              store[inflight[t].id] # Nil
    ]_vars

\* C19 amended: UpdateAsset and TransferAsset put a value under id only if a
\* record was stored under id at the moment of their read of id, and having
\* read none they issue no put and fail with not-found.  A DeleteAsset that
\* lands between the read and the put does not stop the put.
C19_PutOnlyOnSeen ==
    [][\A t \in Txs :
          /\ (inflight[t].op \in {"UpdateAsset", "TransferAsset"} /\ IssueStep(t)) =>
                 /\ IssuedCall(t).call = "PutState"
                 /\ IssuedCall(t).key = inflight[t].id
                 /\ inflight[t].seen # Nil
          /\ (inflight'[t].op \in {"UpdateAsset", "TransferAsset"}
                 /\ inflight'[t].seen = Nil) =>
                 /\ inflight'[t].pc = "done"
                 /\ inflight'[t].err = ErrNotExist(inflight'[t].id)
                 /\ Len(inflight'[t].calls) = 1
    ]_vars

\* A DeleteAsset removed the id between the read and the put of an
\* UpdateAsset: both succeeded and the id is stored again.
C19_Witness ==
    /\ ~mvcc
    /\ inflight["tx1"].op = "UpdateAsset" /\ inflight["tx1"].pc = "done"
    /\ inflight["tx1"].err = NoErr /\ inflight["tx1"].conflict
    /\ inflight["tx1"].seen # Nil
    /\ inflight["tx2"].op = "DeleteAsset" /\ inflight["tx2"].pc = "done"
    /\ inflight["tx2"].err = NoErr /\ Len(inflight["tx2"].calls) = 2
    /\ inflight["tx2"].id = inflight["tx1"].id
    /\ store[inflight["tx1"].id] = inflight["tx1"].calls[2].value

====
